---- MODULE Spec2Model ----
(***************************************************************************)
(* Agent session orchestrator of TestAgentClient (server/src/agent/        *)
(* agent-manager.ts, modules/chat/chat.service.ts, modules/hook).          *)
(*                                                                         *)
(* The server is one Node.js event loop.  A handler runs without           *)
(* interruption until it awaits I/O (prisma, redis, the plan store); the   *)
(* code between two such awaits is one action of this model.  An await of  *)
(* a function that performs no I/O (extractAndPushTestcases, the socket    *)
(* emits) resumes in the same macrotask and is not a point where another   *)
(* handler can run.  The consumer of an SSE queue is resumed by a promise  *)
(* resolution, so it drains the queue before the next macrotask.           *)
(***************************************************************************)
EXTENDS Integers, Sequences, FiniteSets, Bags, TLC

\* ------------------------------------------------------------- bounds
\* requests received per reply: agent callbacks (push_events, legacy message,
\* push_finished) and interrupts
MaxCalls == 2
\* the same where the agent posts single text events only and the subprocess
\* outlives the requests
MaxTextCalls == 3
\* callbacks received for one reply id where some name a reply id that is not pending
MaxStrayCalls == 2
\* push_events requests of one coordinator_event each
MaxPlanCalls == 3
\* the fixed capacity of a subscription's buffer, in events
Capacity == 2
\* push_events requests whose batch holds a malformed element
MaxMalformedCalls == 2
\* push_finished and interrupt requests received in all where two replies of
\* one conversation are in progress
MaxIndexCalls == 1
\* push_events requests whose batch is a coordinator_event followed by a text event
MaxForwardCalls == 2
\* push_events requests whose batch is a sequence of coordinator events
MaxScenarioCalls == 1
\* requests received per reply where the SSE timer and the handlers are fair
MaxStreamCalls == 2
\* push_events requests per reply where two agents post tool events
MaxToolCalls == 2

\* ------------------------------------------------------------- inputs
Replies == {"r1"}
\* a reply id that no send allocates
StrayIds == {"r0"}
\* two replies of one conversation that are in progress at the same time
IndexReplies == {"r1", "r2"}
ReplyIds == Replies \cup StrayIds \cup IndexReplies
Conversations == {"c1"}
\* the authenticated users; every reply is allocated by a send of Owner
Users == {"u1", "u2"}
Owner == "u1"
\* the agent's k-th text event carries the k-th letter, its k-th tool_call the k-th id
Letters == <<"a", "b", "c", "d", "e">>
\* a text of 100 characters or more that is one JSON object with a non-empty
\* "testcases" array
Json == "J"
ToolIds == <<"t1">>
ToolNames == {"internal_ping", "fetch"}
CoordTypes == {"plan_created"}
\* the phases a plan declares (1-indexed), and activePhase null
Phases == <<1, 2>>
Null == 0
MessageIds == {"", "m1"}

\* settings.json toolDisplay: the hidden names and the display names
Hidden == {"internal_ping"}
Rename == [n \in {"fetch"} |-> "FetchPage"]

\* data.evaluation of a phase_completed, and the event without one
Evaluations == {"ok"}
NoEvaluation == ""
\* the key of phase_outputs for a phase: `phase_${phaseIndex}`
OutputKey == <<"phase_1", "phase_2">>
\* the phaseOutputs column as updatePhaseCompleted reads it: the JSON null that
\* upsertPlan writes reads as the empty object
NoOutputs == [k \in {} |-> NoEvaluation]

\* no row of coordinator_plans for a conversation
NoPlan == [exists |-> FALSE, objective |-> "", phases |-> <<>>, activePhase |-> Null,
           completedPhases |-> <<>>, phaseOutputs |-> NoOutputs, status |-> ""]

NoReply == [conversationId |-> "", messages |-> <<>>, finished |-> FALSE,
            cancelled |-> FALSE, present |-> FALSE]

\* ------------------------------------------------------------- events
Ev(type, content, id, name, etype) ==
  [type |-> type, content |-> content, id |-> id, name |-> name, event_type |-> etype]

\* what the agent can post next, having posted nText text events and called the
\* tool ids in called: a tool_call takes a fresh id, a tool_result an id called
TextEvents(nText) ==
  IF nText < Len(Letters)
  THEN {Ev("text", <<Letters[nText + 1]>>, "", "", ""), Ev("text", <<Json>>, "", "", "")}
  ELSE {}
ThinkingEvents == {Ev("thinking", <<"k">>, "", "", "")}
ToolCallEvents(called) ==
  IF Cardinality(called) < Len(ToolIds)
  THEN {Ev("tool_call", <<>>, ToolIds[Cardinality(called) + 1], n, "") : n \in ToolNames}
  ELSE {}
ToolResultEvents(called) ==
  {Ev("tool_result", <<>>, c.id, n, "") : c \in called, n \in ToolNames}
CoordEvents == {Ev("coordinator_event", <<>>, "", "", t) : t \in CoordTypes}
\* the coordinator events the plan projector acts on; content is data.plan.phases
\* of plan_created (the plan of objective "O") and data.phase of phase_started
\* and phase_completed; the name slot holds data.evaluation of a phase_completed
PlanEvents ==
  {Ev("coordinator_event", Phases, "", "", "plan_created")}
    \cup {Ev("coordinator_event", <<Phases[i]>>, "", "", t) :
            i \in DOMAIN Phases, t \in {"phase_started", "phase_completed"}}
    \cup {Ev("coordinator_event", <<Phases[i]>>, "", v, "phase_completed") :
            i \in DOMAIN Phases, v \in Evaluations}
    \cup {Ev("coordinator_event", <<>>, "", "", t) :
            t \in {"task_completed", "task_failed", "execution_failed"}}
\* elements of an events array that are no event: the JSON value null, and an
\* object whose type is none of the five
JsonNull == Ev("null", <<>>, "", "", "")
UnknownType == Ev("unknown", <<>>, "", "", "")
Malformed == {JsonNull, UnknownType}
\* a malformed element before or after the next text event
MalformedBatches(nText) ==
  IF nText < Len(Letters)
  THEN LET t == Ev("text", <<Letters[nText + 1]>>, "", "", "") IN
       {<<m, t>> : m \in Malformed} \cup {<<t, m>> : m \in Malformed}
  ELSE {}
\* the events array of a plan run: plan_created, then phase 1 started and
\* completed with an evaluation, phase 2 started and completed without one,
\* then task_completed
PlanRun ==
  <<Ev("coordinator_event", Phases, "", "", "plan_created"),
    Ev("coordinator_event", <<1>>, "", "", "phase_started"),
    Ev("coordinator_event", <<1>>, "", "ok", "phase_completed"),
    Ev("coordinator_event", <<2>>, "", "", "phase_started"),
    Ev("coordinator_event", <<2>>, "", "", "phase_completed"),
    Ev("coordinator_event", <<>>, "", "", "task_completed")>>
\* batches of coordinator events: one projector event, alone, after a
\* plan_created and a phase_started, or twice after a plan_created, and the
\* plan run
ScenarioBatches ==
  {<<c>> : c \in PlanEvents}
    \cup {<<PlanRun[1], PlanRun[2], c>> : c \in PlanEvents}
    \cup {<<PlanRun[1], c, c>> : c \in PlanEvents}
    \cup {PlanRun}
\* a coordinator event of the plan projector followed by the next text event
PlanBatches(nText) ==
  IF nText < Len(Letters)
  THEN {<<c, Ev("text", <<Letters[nText + 1]>>, "", "", "")>> : c \in PlanEvents}
  ELSE {}
AgentEvents(nText, called) ==
  TextEvents(nText) \cup ThinkingEvents \cup ToolCallEvents(called)
    \cup ToolResultEvents(called) \cup CoordEvents

\* A batch without a coordinator_event is processed in one synchronous run;
\* a coordinator_event suspends the handler with the rest of the batch pending.
Batches(nText, called) ==
  {<<e>> : e \in AgentEvents(nText, called)}
    \cup {<<c, e>> : c \in CoordEvents, e \in AgentEvents(nText, called) \ CoordEvents}

LegacyMessages ==
  {[id |-> i, text |-> <<t>>, thinking |-> <<>>] : i \in MessageIds \ {""}, t \in {"m", Json}}

\* what the SSE generator yields besides forwarded events
Start == Ev("start", <<>>, "", "", "")
Heartbeat == Ev("heartbeat", <<>>, "", "", "")
Done == Ev("done", <<>>, "", "", "")
\* the null end signal of pushToSSEQueue
End == Ev("end", <<>>, "", "", "")
Cancelled == Ev("cancelled", <<>>, "", "", "")
Testcases == Ev("testcases", <<>>, "", "", "")
\* the error event streamSSE writes when the generator throws
Error == Ev("error", <<>>, "", "", "")
\* what spawnAgentProcess can do: return a ChildProcess or fail
SpawnOutcomes == {"child", "SpawnFailed"}

VARIABLES
  processes,            \* AgentManager.processes: replies with a ChildProcess entry
  conversationAgents,   \* AgentManager.conversationAgents: conversation -> set of replies
  pendingReplies,       \* AgentManager.pendingReplies
  messageCallbacks,     \* AgentManager.messageCallbacks: replies with a registered SSE callback
  hiddenToolCallIds,    \* AgentManager.hiddenToolCallIds
  extractedTestcaseReplies, \* AgentManager.extractedTestcaseReplies
  child,                \* the ChildProcess of a reply: none, alive, killed (signalled), exited
  exitListener,         \* child.on('exit') attached
  sendPc,               \* position of sendMessageStreaming for a reply
  frames,               \* the SSE frames written for a reply, in order
  handlers,             \* bag of handlers suspended at an await
  agentSession,         \* statuses written to the AgentSession row of a reply, in order
  dbMessages,           \* assistant message rows created, in order
  hubLog,               \* every pushToSSEQueue call of a reply, in order
  coordinatorPlan,      \* the coordinator_plans table: conversation -> row
  socket,               \* every emit on the client namespace of Socket.IO, in order
  toolCalled,           \* agent side: the tool_calls (id, name) the agent has posted
  textsPosted,          \* agent side: contents of the text events posted, in order
  discarded,            \* what cleanup() threw away: whether it ran, and the process map,
                        \* the pending replies and the SSE callbacks as they were
  calls                 \* per reply: the requests received so far by kind, whether an
                        \* interrupt returned true (and one that arrived while the SSE
                        \* callback was registered), and how many text events had been
                        \* posted when push_finished first arrived

vars == <<processes, conversationAgents, pendingReplies, messageCallbacks,
          hiddenToolCallIds, extractedTestcaseReplies, child, exitListener, sendPc,
          frames, handlers, agentSession, dbMessages, hubLog, socket, toolCalled, textsPosted,
          calls, coordinatorPlan, discarded>>

\* ------------------------------------------------------------- helpers
Last(s) == s[Len(s)]

RECURSIVE Concat(_)
\* the concatenation of a sequence of strings
Concat(ss) == IF ss = <<>> THEN <<>> ELSE Head(ss) \o Concat(Tail(ss))

\* tool-display.ts
isToolHidden(name) == name \in Hidden

getToolDisplayName(name) == IF name \in DOMAIN Rename THEN Rename[name] ELSE name

\* AgentManager.isRunning: an entry in the process map whose child has no
\* exit code and was never signalled through kill()
isRunning(r) == r \in processes /\ child[r] = "alive"

\* child.kill(): the killed flag is set when the signal could be delivered
Kill(c) == IF c = "alive" THEN "killed" ELSE c

\* ------------------------------------------------------------- durable store
\* prisma.agentSession.update({where: {replyId}}): fails (caught and logged)
\* when the row was not created yet
UpdateSession(log, status) == IF log = <<>> THEN log ELSE Append(log, status)

\* prisma.message.create: the id column is unique; a duplicate id throws and is caught
CreateMessage(rows, r, m) ==
  IF m.id # "" /\ \E i \in 1..Len(rows) : rows[i].id = m.id
  THEN rows
  ELSE Append(rows, [reply |-> r, id |-> m.id, content |-> m.acc])

\* the for-of loop over reply.messages of the two flushes: the next index at or
\* after from whose _accumulated_content is not empty, 0 when the loop ends
NextFlush(msgs, from) ==
  IF \E i \in from..Len(msgs) : msgs[i].acc # <<>>
  THEN CHOOSE i \in from..Len(msgs) :
         /\ msgs[i].acc # <<>>
         /\ \A j \in from..(i - 1) : msgs[j].acc = <<>>
  ELSE 0

\* ------------------------------------------------------------- SSE queue
\* state of the subscription of a reply when something is pushed
SubState(r) == IF r \in messageCallbacks THEN "open"
               ELSE IF sendPc[r] = "closed" THEN "closed" ELSE "none"

RECURSIVE Drain(_, _)
\* inner loop of sendMessageStreaming: shift the queue, yield each message,
\* on the end signal yield done and return
Drain(queue, written) ==
  IF queue = <<>> THEN [frames |-> written, ended |-> FALSE]
  ELSE IF Head(queue) = End THEN [frames |-> Append(written, Done), ended |-> TRUE]
  ELSE Drain(Tail(queue), Append(written, Head(queue)))

\* a generator that does not look at isRunning after a wake-up
ConsumeUntilEnd(r, queue, running) ==
  LET d == Drain(queue, frames[r]) IN
  IF d.ended THEN [frames |-> d.frames, open |-> FALSE]
  ELSE [frames |-> Append(d.frames, Heartbeat), open |-> TRUE]

\* one wake-up of the generator of reply r with the given queue (empty when the
\* timer fired): drain, then leave the loop when the agent is not running,
\* else yield a heartbeat and wait again
ConsumeQueue(r, queue, running) ==
  LET d == Drain(queue, frames[r]) IN
  IF d.ended THEN [frames |-> d.frames, open |-> FALSE]
  ELSE IF ~running THEN [frames |-> Append(d.frames, Done), open |-> FALSE]
  ELSE [frames |-> Append(d.frames, Heartbeat), open |-> TRUE]

\* a queue that hands over the newest message first (unshift instead of push)
EnqueueFront(queue, msg) == <<msg>> \o queue

\* the callback registered by sendMessageStreaming: messageQueue.push(msg)
Enqueue(queue, msg) == Append(queue, msg)

RECURSIVE EnqueueAll(_, _)
EnqueueAll(queue, msgs) ==
  IF msgs = <<>> THEN queue ELSE EnqueueAll(Enqueue(queue, Head(msgs)), Tail(msgs))

\* pushToSSEQueue for every message a handler pushes in one synchronous run,
\* followed by the wake-up of the generator when a callback is registered
pushToSSEQueue(r, out, src, running) ==
  /\ hubLog' = [hubLog EXCEPT ![r] =
                  @ \o [i \in 1..Len(out) |-> [ev |-> out[i], src |-> src, sub |-> SubState(r)]]]
  /\ IF r \in messageCallbacks /\ out # <<>>
     THEN LET c == ConsumeQueue(r, EnqueueAll(<<>>, out), running) IN
          /\ frames' = [frames EXCEPT ![r] = c.frames]
          /\ messageCallbacks' = IF c.open THEN messageCallbacks ELSE messageCallbacks \ {r}
          /\ sendPc' = IF c.open THEN sendPc ELSE [sendPc EXCEPT ![r] = "closed"]
     ELSE UNCHANGED <<frames, messageCallbacks, sendPc>>

\* ------------------------------------------------------------- socket bus
\* SocketManager: one entry per emit; room is the chat room of a pushReplies
\* and the conversation_id of a pushReplyingState ("" for null)
Emit(event, room, r, message) ==
  [event |-> event, room |-> room, reply |-> r, message |-> message]

broadcastMessage(log, c, r, message) == Append(log, Emit("pushReplies", c, r, message))

broadcastReplyingState(log, c) == Append(log, Emit("pushReplyingState", c, "", <<>>))

broadcastFinished(log, r) == Append(log, Emit("pushFinished", "", r, <<>>))

broadcastCancelled(log, r) == Append(log, Emit("pushCancelled", "", r, <<>>))

\* ------------------------------------------------------------- testcases
\* text.match(/\{.*"testcases".*\}/s) followed by JSON.parse of the match: the
\* greedy match runs from the first brace to the last, so it parses when the
\* text holds exactly one testcases document
Parses(text) == Cardinality({i \in DOMAIN text : text[i] = Json}) = 1

\* an extraction that does not look at the replies already extracted
extractEveryTime(extracted, r, text) == Parses(text)

\* extractAndPushTestcases: whether it adds r to extractedTestcaseReplies and
\* pushes a testcases event
extractAndPushTestcases(extracted, r, text) == r \notin extracted /\ Parses(text)

\* ------------------------------------------------------------- handleAgentEvents
\* one iteration of the for loop of handleAgentEvents on a non-coordinator event;
\* st carries reply.messages, hiddenToolCallIds and the messages pushed so far
StepEvent(st, e) ==
  CASE e.type = "text" ->
         LET msgs == IF st.messages # <<>>
                     THEN [st.messages EXCEPT ![1].acc = @ \o e.content]
                     ELSE <<[id |-> "", acc |-> e.content]>>
             found == extractAndPushTestcases(st.extracted, st.reply, msgs[1].acc)
         IN [st EXCEPT
               !.messages = msgs,
               !.extracted = IF found THEN @ \cup {st.reply} ELSE @,
               !.out = Append(@, Ev("chunk", e.content, "", "", ""))
                         \o (IF found THEN <<Testcases>> ELSE <<>>)]
    [] e.type = "thinking" ->
         [st EXCEPT !.out = Append(@, Ev("thinking", e.content, "", "", ""))]
    [] e.type = "tool_call" ->
         IF isToolHidden(e.name)
         THEN [st EXCEPT !.hidden = @ \cup {e.id}]
         ELSE [st EXCEPT !.out = Append(@, [e EXCEPT !.name = getToolDisplayName(e.name)])]
    [] e.type = "tool_result" ->
         IF isToolHidden(e.name) \/ e.id \in st.hidden
         THEN st
         ELSE [st EXCEPT !.out = Append(@, [e EXCEPT !.name = getToolDisplayName(e.name)])]
    [] OTHER -> st

RECURSIVE RunEvents(_, _)
\* the for loop up to its first await of the plan store: rest is what is left of
\* the batch, starting with the coordinator_event being persisted. Reading
\* event.type of null throws a TypeError that ends handleAgentEvents
RunEvents(st, events) ==
  IF events = <<>> THEN [st EXCEPT !.rest = <<>>]
  ELSE IF Head(events) = JsonNull THEN [st EXCEPT !.rest = <<>>, !.threw = TRUE]
  ELSE IF Head(events).type = "coordinator_event" THEN [st EXCEPT !.rest = events]
  ELSE RunEvents(StepEvent(st, Head(events)), Tail(events))

\* ------------------------------------------------------------- bookkeeping
\* conversationAgents.get(c).add(r), creating the set on first use
AddAgent(ca, c, r) ==
  IF c \in DOMAIN ca THEN [ca EXCEPT ![c] = @ \cup {r}]
  ELSE [x \in DOMAIN ca \cup {c} |-> IF x = c THEN {r} ELSE ca[x]]

\* an exit listener that leaves the set of c in the index when it becomes empty
RemoveKeepEntry(ca, c, r) ==
  IF c \notin DOMAIN ca THEN ca ELSE [ca EXCEPT ![c] = @ \ {r}]

\* exit listener: delete r from the set of c, and the entry when the set is empty
RemoveAgent(ca, c, r) ==
  IF c \notin DOMAIN ca THEN ca
  ELSE IF ca[c] \ {r} = {} THEN [x \in DOMAIN ca \ {c} |-> ca[x]]
  ELSE [ca EXCEPT ![c] = @ \ {r}]

\* a handler suspended at an await: what it holds in local variables
Handler(kind, r, pc, rest, idx, cap, hadChild, open) ==
  [kind |-> kind, reply |-> r, pc |-> pc, rest |-> rest, idx |-> idx, cap |-> cap,
   child |-> hadChild, open |-> open, batch |-> <<>>, known |-> TRUE, read |-> NoPlan]

NoMessage == [id |-> "", acc |-> <<>>]

Suspend(h) == handlers (+) SetToBag({h})
Resume(h) == handlers (-) SetToBag({h})

Count(r, field) == [calls EXCEPT ![r][field] = @ + 1, ![r].total = @ + 1]

\* fewer than max requests were received for r
Budget(r, max) == calls[r].total < max

Init ==
  /\ processes = {}
  /\ conversationAgents = [c \in {} |-> {}]
  /\ pendingReplies = [r \in ReplyIds |-> NoReply]
  /\ messageCallbacks = {}
  /\ hiddenToolCallIds = {}
  /\ extractedTestcaseReplies = {}
  /\ child = [r \in ReplyIds |-> "none"]
  /\ exitListener = [r \in ReplyIds |-> FALSE]
  /\ sendPc = [r \in ReplyIds |-> "idle"]
  /\ frames = [r \in ReplyIds |-> <<>>]
  /\ handlers = EmptyBag
  /\ agentSession = [r \in ReplyIds |-> <<>>]
  /\ dbMessages = <<>>
  /\ hubLog = [r \in ReplyIds |-> <<>>]
  /\ socket = <<>>
  /\ coordinatorPlan = [c \in Conversations |-> NoPlan]
  /\ discarded = [happened |-> FALSE, processes |-> {}, messageCallbacks |-> {},
                  pendingReplies |-> [r \in ReplyIds |-> NoReply]]
  /\ toolCalled = [r \in ReplyIds |-> {}]
  /\ textsPosted = [r \in ReplyIds |-> <<>>]
  /\ calls = [r \in ReplyIds |-> [total |-> 0, events |-> 0, legacy |-> 0, finished |-> 0,
                                 interrupts |-> 0, interruptTrue |-> FALSE,
                                 interruptOpen |-> FALSE, textsAtFinished |-> 0]]

\* ------------------------------------------------------------- send / spawn
\* a sendMessageStreaming that yields no start event before it spawns
SendWithoutStart(r, c) ==
  /\ sendPc[r] = "idle"
  /\ pendingReplies' = [pendingReplies EXCEPT ![r] =
        [conversationId |-> c, messages |-> <<>>, finished |-> FALSE,
         cancelled |-> FALSE, present |-> TRUE]]
  /\ conversationAgents' = AddAgent(conversationAgents, c, r)
  /\ sendPc' = [sendPc EXCEPT ![r] = "create"]
  /\ socket' = broadcastReplyingState(socket, c)
  /\ UNCHANGED <<processes, messageCallbacks, hiddenToolCallIds, extractedTestcaseReplies,
                 child, exitListener, handlers, agentSession, dbMessages, hubLog,
                 toolCalled, textsPosted, calls, frames, coordinatorPlan, discarded>>

\* sendMessageStreaming up to the first await of spawnAgent: the start frame is
\* yielded, the pending reply and the conversation index are set
Send(r, c) ==
  /\ sendPc[r] = "idle"
  /\ frames' = [frames EXCEPT ![r] = <<Start>>]
  /\ pendingReplies' = [pendingReplies EXCEPT ![r] =
        [conversationId |-> c, messages |-> <<>>, finished |-> FALSE,
         cancelled |-> FALSE, present |-> TRUE]]
  /\ conversationAgents' = AddAgent(conversationAgents, c, r)
  /\ sendPc' = [sendPc EXCEPT ![r] = "create"]
  /\ socket' = broadcastReplyingState(socket, c)
  /\ UNCHANGED <<processes, messageCallbacks, hiddenToolCallIds, extractedTestcaseReplies,
                 child, exitListener, handlers, agentSession, dbMessages, hubLog,
                 toolCalled, textsPosted, calls>>
  /\ UNCHANGED <<coordinatorPlan, discarded>>

\* spawnAgent resumes from redis.setex and agentSession.create: the row exists
\* with status STARTING, the child is forked and entered in the process map
SpawnCreate(r) ==
  /\ sendPc[r] = "create"
  /\ agentSession' = [agentSession EXCEPT ![r] = Append(@, "STARTING")]
  /\ child' = [child EXCEPT ![r] = "alive"]
  /\ processes' = processes \cup {r}
  /\ sendPc' = [sendPc EXCEPT ![r] = "update"]
  /\ UNCHANGED <<conversationAgents, pendingReplies, messageCallbacks, hiddenToolCallIds,
                 extractedTestcaseReplies, exitListener, frames, handlers, dbMessages,
                 hubLog, toolCalled, textsPosted, calls, socket>>
  /\ UNCHANGED <<coordinatorPlan, discarded>>

\* spawnAgent resumes from redis.setex and agentSession.create and
\* spawnAgentProcess fails: the exception leaves spawnAgent and the generator,
\* streamSSE writes an error event after the start event and ends the stream
SpawnFail(r) ==
  /\ sendPc[r] = "create"
  /\ "SpawnFailed" \in SpawnOutcomes
  /\ agentSession' = [agentSession EXCEPT ![r] = Append(@, "STARTING")]
  /\ frames' = [frames EXCEPT ![r] = Append(@, Error)]
  /\ sendPc' = [sendPc EXCEPT ![r] = "thrown"]
  /\ UNCHANGED <<processes, conversationAgents, pendingReplies, messageCallbacks,
                 hiddenToolCallIds, extractedTestcaseReplies, child, exitListener,
                 handlers, dbMessages, hubLog, toolCalled, textsPosted, calls, socket>>
  /\ UNCHANGED <<coordinatorPlan, discarded>>

\* spawnAgent resumes from agentSession.update and redis.setex: status RUNNING,
\* the exit listener is attached, spawnAgent returns and sendMessageStreaming
\* registers its SSE callback and waits on the empty queue
SpawnRunning(r) ==
  /\ sendPc[r] = "update"
  /\ agentSession' = [agentSession EXCEPT ![r] = UpdateSession(@, "RUNNING")]
  /\ exitListener' = [exitListener EXCEPT ![r] = TRUE]
  /\ messageCallbacks' = messageCallbacks \cup {r}
  /\ sendPc' = [sendPc EXCEPT ![r] = "streaming"]
  /\ UNCHANGED <<processes, conversationAgents, pendingReplies, hiddenToolCallIds,
                 extractedTestcaseReplies, child, frames, handlers, dbMessages, hubLog,
                 toolCalled, textsPosted, calls, socket>>
  /\ UNCHANGED <<coordinatorPlan, discarded>>

\* the subprocess exits (by itself or after a signal); the exit listener, when
\* it is attached by then, removes the reply from the process map and the index
ChildExit(r) ==
  /\ child[r] \in {"alive", "killed"}
  /\ child' = [child EXCEPT ![r] = "exited"]
  /\ IF exitListener[r]
     THEN /\ processes' = processes \ {r}
          /\ conversationAgents' =
               RemoveAgent(conversationAgents, pendingReplies[r].conversationId, r)
     ELSE UNCHANGED <<processes, conversationAgents>>
  /\ UNCHANGED <<pendingReplies, messageCallbacks, hiddenToolCallIds,
                 extractedTestcaseReplies, exitListener, sendPc, frames, handlers,
                 agentSession, dbMessages, hubLog, toolCalled, textsPosted, calls, socket>>
  /\ UNCHANGED <<coordinatorPlan, discarded>>

\* the 30 s timer of sendMessageStreaming fires on an empty queue; frames
\* records a run of heartbeats once
SSETimeout(r) ==
  /\ sendPc[r] = "streaming"
  /\ LET c == ConsumeQueue(r, <<>>, isRunning(r)) IN
       /\ frames' = IF c.open /\ frames[r] # <<>> /\ Last(frames[r]) = Heartbeat THEN frames
                     ELSE [frames EXCEPT ![r] = c.frames]
       /\ messageCallbacks' = IF c.open THEN messageCallbacks ELSE messageCallbacks \ {r}
       /\ sendPc' = IF c.open THEN sendPc ELSE [sendPc EXCEPT ![r] = "closed"]
  /\ UNCHANGED <<processes, conversationAgents, pendingReplies, hiddenToolCallIds,
                 extractedTestcaseReplies, child, exitListener, handlers, agentSession,
                 dbMessages, hubLog, toolCalled, textsPosted, calls, socket>>
  /\ UNCHANGED <<coordinatorPlan, discarded>>

\* ------------------------------------------------------------- plan service
Includes(seq, x) == \E i \in DOMAIN seq : seq[i] = x

\* prisma.coordinatorPlan.upsert: update and create write the same columns
upsertPlan(table, c, objective, phases) ==
  [table EXCEPT ![c] = [exists |-> TRUE, objective |-> objective, phases |-> phases,
                        activePhase |-> Null, completedPhases |-> <<>>,
                        phaseOutputs |-> NoOutputs, status |-> "running"]]

\* prisma.coordinatorPlan.update throws when there is no row; the error is caught
updatePhaseStarted(table, c, phaseIndex) ==
  IF table[c].exists
  THEN [table EXCEPT ![c].activePhase = phaseIndex, ![c].status = "running"]
  ELSE table

\* {...existingOutputs} with phaseOutputs[key] = phaseOutput
WithOutput(outputs, key, phaseOutput) ==
  [k \in DOMAIN outputs \cup {key} |-> IF k = key THEN phaseOutput ELSE outputs[k]]

\* an update that leaves activePhase out of its data
completeKeepActive(table, c, phaseIndex, phaseOutput, existingPlan) ==
  IF table[c].exists
  THEN [table EXCEPT
          ![c].completedPhases =
             IF Includes(existingPlan.completedPhases, phaseIndex)
             THEN existingPlan.completedPhases
             ELSE Append(existingPlan.completedPhases, phaseIndex),
          ![c].phaseOutputs =
             IF phaseOutput # NoEvaluation
             THEN WithOutput(existingPlan.phaseOutputs, OutputKey[phaseIndex], phaseOutput)
             ELSE existingPlan.phaseOutputs]
  ELSE table

\* an update that pushes phaseIndex without looking for it
completeAppendAlways(table, c, phaseIndex, phaseOutput, existingPlan) ==
  IF table[c].exists
  THEN [table EXCEPT
          ![c].completedPhases = Append(existingPlan.completedPhases, phaseIndex),
          ![c].phaseOutputs =
             IF phaseOutput # NoEvaluation
             THEN WithOutput(existingPlan.phaseOutputs, OutputKey[phaseIndex], phaseOutput)
             ELSE existingPlan.phaseOutputs,
          ![c].activePhase =
             IF existingPlan.activePhase = phaseIndex THEN Null
             ELSE existingPlan.activePhase]
  ELSE table

\* the update of updatePhaseCompleted, computed from the row existingPlan that
\* its findUnique returned
updatePhaseCompleted(table, c, phaseIndex, phaseOutput, existingPlan) ==
  IF table[c].exists
  THEN [table EXCEPT
          ![c].completedPhases =
             IF Includes(existingPlan.completedPhases, phaseIndex)
             THEN existingPlan.completedPhases
             ELSE Append(existingPlan.completedPhases, phaseIndex),
          ![c].phaseOutputs =
             IF phaseOutput # NoEvaluation
             THEN WithOutput(existingPlan.phaseOutputs, OutputKey[phaseIndex], phaseOutput)
             ELSE existingPlan.phaseOutputs,
          ![c].activePhase =
             IF existingPlan.activePhase = phaseIndex THEN Null
             ELSE existingPlan.activePhase]
  ELSE table

\* an updatePlanStatus that upserts
createPlanStatus(table, c, status) ==
  [table EXCEPT ![c].exists = TRUE, ![c].status = status]

updatePlanStatus(table, c, status) ==
  IF table[c].exists THEN [table EXCEPT ![c].status = status] ELSE table

\* data.phase of a coordinator event, 1 when absent
PhaseOf(e) == IF e.content = <<>> THEN 1 ELSE e.content[1]

\* data.evaluation of a phase_completed
EvaluationOf(e) == e.name

\* data.plan.objective of a plan_created, '' when data.plan is absent
ObjectiveOf(e) == IF e.content = <<>> THEN "" ELSE "O"

\* the single write of handleCoordinatorEvent for the events other than
\* phase_completed
handleCoordinatorEvent(table, c, e) ==
  CASE e.event_type = "plan_created" -> upsertPlan(table, c, ObjectiveOf(e), e.content)
    [] e.event_type = "phase_started" -> updatePhaseStarted(table, c, PhaseOf(e))
    [] e.event_type = "task_completed" -> updatePlanStatus(table, c, "completed")
    [] e.event_type \in {"execution_failed", "task_failed"} ->
         updatePlanStatus(table, c, "failed")
    [] OTHER -> table

\* ------------------------------------------------------------- agent callbacks
CalledIn(batch) == {[id |-> batch[i].id, name |-> batch[i].name] :
                       i \in {j \in 1..Len(batch) : batch[j].type = "tool_call"}}

RECURSIVE TextsIn(_)
TextsIn(batch) ==
  IF batch = <<>> THEN <<>>
  ELSE IF Head(batch).type = "text" THEN <<Head(batch).content>> \o TextsIn(Tail(batch))
  ELSE TextsIn(Tail(batch))

\* handleAgentEvents from the event at hand to its next await (or its end):
\* pushed holds what was already pushed in this run, bag the other handlers,
\* batch the events of the request, which handlePushEvents broadcasts as they
\* came when handleAgentEvents has returned
EventsRun(r, events, pushed, bag, batch) ==
  LET st0 == [reply |-> r, messages |-> pendingReplies[r].messages,
              hidden |-> hiddenToolCallIds, extracted |-> extractedTestcaseReplies,
              out |-> pushed, rest |-> <<>>, threw |-> FALSE]
      res == RunEvents(st0, events)
  IN /\ pendingReplies' = [pendingReplies EXCEPT ![r].messages = res.messages]
     /\ hiddenToolCallIds' = res.hidden
     /\ extractedTestcaseReplies' = res.extracted
     /\ pushToSSEQueue(r, res.out, "events", isRunning(r))
     /\ handlers' = IF res.rest = <<>> THEN bag
                    ELSE bag (+) SetToBag({[Handler("events", r, "coord", res.rest, 0,
                                                    NoMessage, FALSE, FALSE)
                                              EXCEPT !.batch = batch]})
     /\ socket' = IF res.rest = <<>> /\ ~res.threw
                  THEN broadcastMessage(socket, pendingReplies[r].conversationId, r, batch)
                  ELSE socket

\* a handlePushEvents that does not look whether the reply is pending
handleEventsUnchecked(r, batch) ==
  /\ EventsRun(r, batch, <<>>, handlers, batch)
  /\ UNCHANGED <<processes, conversationAgents, child, exitListener, agentSession,
                 dbMessages>>
  /\ UNCHANGED <<coordinatorPlan, discarded>>

\* handlePushEvents: handleAgentEvents, which returns at once when the reply is
\* not pending, then the broadcast when the reply is pending
handlePushEvents(r, batch) ==
  /\ IF pendingReplies[r].present
     THEN EventsRun(r, batch, <<>>, handlers, batch)
     ELSE UNCHANGED <<pendingReplies, hiddenToolCallIds, extractedTestcaseReplies, hubLog,
                      frames, messageCallbacks, sendPc, handlers, socket>>
  /\ UNCHANGED <<processes, conversationAgents, child, exitListener, agentSession,
                 dbMessages>>
  /\ UNCHANGED <<coordinatorPlan, discarded>>

\* POST /trpc/pushMessageToChatAgent {replyId, events} by the agent of r
PostEvents(r, batch) ==
  /\ child[r] \in {"alive", "killed"}
  /\ batch \in Batches(Len(textsPosted[r]), toolCalled[r])
  /\ calls' = Count(r, "events")
  /\ toolCalled' = [toolCalled EXCEPT ![r] = @ \cup CalledIn(batch)]
  /\ textsPosted' = [textsPosted EXCEPT ![r] = @ \o TextsIn(batch)]
  /\ handlePushEvents(r, batch)

\* handleAgentEvents resumes from an await of the plan store inside
\* handleCoordinatorEvent. phase_completed awaits twice: findUnique, whose row
\* the handler keeps, then update. When handleCoordinatorEvent has returned the
\* coordinator_event is forwarded and the loop goes on with the rest of the batch
ResumeEvents(h) ==
  LET e == Head(h.rest)
      c == pendingReplies[h.reply].conversationId
  IN
  /\ h \in BagToSet(handlers)
  /\ h.kind = "events"
  /\ IF e.event_type = "phase_completed" /\ h.pc = "coord" /\ coordinatorPlan[c].exists
     THEN /\ handlers' = Resume(h) (+) SetToBag({[h EXCEPT !.pc = "planUpdate",
                                                          !.read = coordinatorPlan[c]]})
          /\ UNCHANGED <<coordinatorPlan, pendingReplies, hiddenToolCallIds,
                         extractedTestcaseReplies, hubLog, frames, messageCallbacks,
                         sendPc, socket>>
     ELSE /\ coordinatorPlan' =
               IF e.event_type = "phase_completed"
               THEN IF h.pc = "planUpdate"
                    THEN updatePhaseCompleted(coordinatorPlan, c, PhaseOf(e), EvaluationOf(e), h.read)
                    ELSE coordinatorPlan
               ELSE handleCoordinatorEvent(coordinatorPlan, c, e)
          /\ EventsRun(h.reply, Tail(h.rest), <<e>>, Resume(h), h.batch)
  /\ UNCHANGED <<processes, conversationAgents, child, exitListener, agentSession,
                 dbMessages, toolCalled, textsPosted, calls, discarded>>

\* POST /trpc/pushMessageToChatAgent {replyId, events} by the agent of r with
\* one coordinator_event of the plan projector
PostCoordinator(r, e) ==
  /\ child[r] \in {"alive", "killed"}
  /\ e \in PlanEvents
  /\ calls' = Count(r, "events")
  /\ handlePushEvents(r, <<e>>)
  /\ UNCHANGED <<toolCalled, textsPosted>>

\* a handleCoordinatorEvent without its catch: the rejection ends
\* handleAgentEvents
ResumeThrows(h) ==
  /\ h \in BagToSet(handlers)
  /\ h.kind = "events"
  /\ handlers' = Resume(h)
  /\ UNCHANGED <<processes, conversationAgents, pendingReplies, messageCallbacks,
                 hiddenToolCallIds, extractedTestcaseReplies, child, exitListener, sendPc,
                 frames, agentSession, dbMessages, hubLog, socket, toolCalled, textsPosted,
                 calls, coordinatorPlan, discarded>>

\* handleAgentEvents resumes from an await of the plan store that was rejected
\* (the store is unreachable): the service or handleCoordinatorEvent catches
\* and logs, the row is as it was, the coordinator_event is forwarded and the
\* loop goes on with the rest of the batch
ResumeFailed(h) ==
  /\ h \in BagToSet(handlers)
  /\ h.kind = "events"
  /\ EventsRun(h.reply, Tail(h.rest), <<Head(h.rest)>>, Resume(h), h.batch)
  /\ UNCHANGED <<processes, conversationAgents, child, exitListener, agentSession,
                 dbMessages, toolCalled, textsPosted, calls, coordinatorPlan, discarded>>

\* POST /trpc/pushMessageToChatAgent {replyId, events} by the agent of r with
\* a coordinator_event of the plan projector followed by a text event
PostPlanBatch(r, batch) ==
  /\ child[r] \in {"alive", "killed"}
  /\ batch \in PlanBatches(Len(textsPosted[r]))
  /\ calls' = Count(r, "events")
  /\ textsPosted' = [textsPosted EXCEPT ![r] = @ \o TextsIn(batch)]
  /\ handlePushEvents(r, batch)
  /\ UNCHANGED toolCalled

\* POST /trpc/pushMessageToChatAgent {replyId, events} by the agent of r with
\* a batch of coordinator events
PostScenario(r, batch) ==
  /\ child[r] \in {"alive", "killed"}
  /\ batch \in ScenarioBatches
  /\ calls' = Count(r, "events")
  /\ handlePushEvents(r, batch)
  /\ UNCHANGED <<toolCalled, textsPosted>>

\* POST /trpc/pushMessageToChatAgent {replyId, events} by the agent of r with
\* a malformed element in the events array
PostMalformed(r, batch) ==
  /\ child[r] \in {"alive", "killed"}
  /\ batch \in MalformedBatches(Len(textsPosted[r]))
  /\ calls' = Count(r, "events")
  /\ textsPosted' = [textsPosted EXCEPT ![r] = @ \o TextsIn(batch)]
  /\ handlePushEvents(r, batch)
  /\ UNCHANGED toolCalled

\* reply.messages after handleAgentMessage accumulated the text of a legacy
\* message under its id
AccumulateLegacy(msgs, m) ==
  IF m.id # "" /\ \E i \in 1..Len(msgs) : msgs[i].id = m.id
  THEN LET k == CHOOSE i \in 1..Len(msgs) :
                  msgs[i].id = m.id /\ \A j \in 1..(i - 1) : msgs[j].id # m.id
       IN [msgs EXCEPT ![k].acc = @ \o m.text]
  ELSE Append(msgs, [id |-> m.id, acc |-> m.text])

\* handlePushMessage: handleAgentMessage, which returns at once when the reply
\* is not pending, then the broadcast when the reply is pending
handlePushMessage(r, m) ==
  /\ IF pendingReplies[r].present
     THEN LET found == extractAndPushTestcases(extractedTestcaseReplies, r, m.text) IN
          /\ pendingReplies' = [pendingReplies EXCEPT ![r].messages = AccumulateLegacy(@, m)]
          /\ extractedTestcaseReplies' =
               IF found THEN extractedTestcaseReplies \cup {r} ELSE extractedTestcaseReplies
          /\ pushToSSEQueue(r,
               (IF m.thinking # <<>> THEN <<Ev("thinking", m.thinking, "", "", "")>> ELSE <<>>)
                 \o (IF m.text # <<>> THEN <<Ev("chunk", m.text, "", "", "")>> ELSE <<>>)
                 \o (IF found THEN <<Testcases>> ELSE <<>>),
               "message", isRunning(r))
          /\ socket' = broadcastMessage(socket, pendingReplies[r].conversationId, r,
                                        <<Ev("msg", m.text, m.id, "", "")>>)
     ELSE UNCHANGED <<pendingReplies, extractedTestcaseReplies, hubLog, frames,
                      messageCallbacks, sendPc, socket>>
  /\ UNCHANGED <<processes, conversationAgents, hiddenToolCallIds, child, exitListener,
                 handlers, agentSession, dbMessages>>
  /\ UNCHANGED <<coordinatorPlan, discarded>>

\* POST /trpc/pushMessageToChatAgent {replyId, msg} by the agent of r
PostMessage(r, m) ==
  /\ child[r] \in {"alive", "killed"}
  /\ calls' = Count(r, "legacy")
  /\ handlePushMessage(r, m)
  /\ UNCHANGED <<toolCalled, textsPosted>>

\* ------------------------------------------------------------- push_finished
\* handleAgentFinished from index from of its flush loop: suspend at the next
\* message.create, or leave the loop, push the end signal and await the update
FinishedRun(r, from, known, bag) ==
  LET i == NextFlush(pendingReplies[r].messages, from) IN
  IF i # 0
  THEN /\ handlers' = bag (+) SetToBag({[Handler("finished", r, "flush", <<>>, i,
                                                 pendingReplies[r].messages[i], FALSE, FALSE)
                                           EXCEPT !.known = known]})
       /\ UNCHANGED <<hubLog, frames, messageCallbacks, sendPc>>
  ELSE /\ handlers' = bag (+) SetToBag({[Handler("finished", r, "update", <<>>, 0,
                                                 NoMessage, FALSE, FALSE)
                                           EXCEPT !.known = known]})
       /\ pushToSSEQueue(r, <<End>>, "finished", isRunning(r))

\* handlePushFinished: the pending reply is looked up for the broadcast, then
\* handleAgentFinished runs, whose flush loop is skipped when the reply is not
\* pending
handlePushFinished(r) ==
  /\ pendingReplies' = IF pendingReplies[r].present
                       THEN [pendingReplies EXCEPT ![r].finished = TRUE]
                       ELSE pendingReplies
  /\ FinishedRun(r, 1, pendingReplies[r].present, handlers)
  /\ UNCHANGED <<processes, conversationAgents, hiddenToolCallIds, extractedTestcaseReplies,
                 child, exitListener, agentSession, dbMessages, socket>>
  /\ UNCHANGED <<coordinatorPlan, discarded>>

\* POST /trpc/pushFinishedSignalToChatAgent by the agent of r
PushFinished(r) ==
  /\ child[r] \in {"alive", "killed"}
  /\ calls' = [Count(r, "finished") EXCEPT ![r].textsAtFinished =
                 IF calls[r].finished = 0 THEN Len(textsPosted[r]) ELSE @]
  /\ handlePushFinished(r)
  /\ UNCHANGED <<toolCalled, textsPosted>>

\* handleAgentFinished resumes from message.create
FinishedFlushDone(h) ==
  /\ h \in BagToSet(handlers)
  /\ h.kind = "finished" /\ h.pc = "flush"
  /\ dbMessages' = CreateMessage(dbMessages, h.reply, h.cap)
  /\ FinishedRun(h.reply, h.idx + 1, h.known, Resume(h))
  /\ UNCHANGED <<processes, conversationAgents, pendingReplies, hiddenToolCallIds,
                 extractedTestcaseReplies, child, exitListener, agentSession, toolCalled,
                 textsPosted, calls, socket>>
  /\ UNCHANGED <<coordinatorPlan, discarded>>

\* handleAgentFinished resumes from agentSession.update: status COMPLETED
FinishedUpdateDone(h) ==
  /\ h \in BagToSet(handlers)
  /\ h.kind = "finished" /\ h.pc = "update"
  /\ agentSession' = [agentSession EXCEPT ![h.reply] = UpdateSession(@, "COMPLETED")]
  /\ handlers' = Resume(h) (+) SetToBag({[h EXCEPT !.pc = "redis"]})
  /\ UNCHANGED <<processes, conversationAgents, pendingReplies, messageCallbacks,
                 hiddenToolCallIds, extractedTestcaseReplies, child, exitListener, sendPc,
                 frames, dbMessages, hubLog, toolCalled, textsPosted, calls, socket>>
  /\ UNCHANGED <<coordinatorPlan, discarded>>

\* handleAgentFinished resumes from redis.del: the child still in the process
\* map is killed and its entry deleted; handlePushFinished then broadcasts when
\* it had found the reply pending
FinishedRedisDone(h) ==
  /\ h \in BagToSet(handlers)
  /\ h.kind = "finished" /\ h.pc = "redis"
  /\ handlers' = Resume(h)
  /\ socket' = IF h.known
               THEN broadcastFinished(broadcastReplyingState(socket, ""), h.reply)
               ELSE socket
  /\ IF h.reply \in processes
     THEN /\ child' = [child EXCEPT ![h.reply] = Kill(@)]
          /\ processes' = processes \ {h.reply}
     ELSE UNCHANGED <<child, processes>>
  /\ UNCHANGED <<conversationAgents, pendingReplies, messageCallbacks, hiddenToolCallIds,
                 extractedTestcaseReplies, exitListener, sendPc, frames, agentSession,
                 dbMessages, hubLog, toolCalled, textsPosted, calls>>
  /\ UNCHANGED <<coordinatorPlan, discarded>>

\* ------------------------------------------------------------- stray callbacks
\* the hook routes take any replyId: callbacks that name a reply id no send
\* has allocated
StrayEvents(u, batch) ==
  /\ u \in StrayIds
  /\ calls' = Count(u, "events")
  /\ handlePushEvents(u, batch)
  /\ UNCHANGED <<toolCalled, textsPosted>>

StrayMessage(u, m) ==
  /\ u \in StrayIds
  /\ calls' = Count(u, "legacy")
  /\ handlePushMessage(u, m)
  /\ UNCHANGED <<toolCalled, textsPosted>>

StrayFinished(u) ==
  /\ u \in StrayIds
  /\ calls' = Count(u, "finished")
  /\ handlePushFinished(u)
  /\ UNCHANGED <<toolCalled, textsPosted>>

\* ------------------------------------------------------------- interrupt
\* terminateAgent from index from of its flush loop: suspend at the next
\* message.create, or leave the loop, signal the child captured on entry, mark
\* the reply, push cancelled and the end signal and await the update
TerminateRun(r, from, hadChild, open, bag) ==
  LET i == NextFlush(pendingReplies[r].messages, from) IN
  IF i # 0
  THEN /\ handlers' = bag (+) SetToBag({Handler("terminate", r, "flush", <<>>, i,
                                                pendingReplies[r].messages[i], hadChild, open)})
       /\ UNCHANGED <<hubLog, frames, messageCallbacks, sendPc, child, processes,
                      pendingReplies>>
  ELSE /\ handlers' = bag (+) SetToBag({Handler("terminate", r, "update", <<>>, 0,
                                                NoMessage, hadChild, open)})
       /\ IF hadChild
          THEN /\ child' = [child EXCEPT ![r] = Kill(@)]
               /\ processes' = processes \ {r}
          ELSE UNCHANGED <<child, processes>>
       /\ pendingReplies' = [pendingReplies EXCEPT ![r].finished = TRUE,
                                                   ![r].cancelled = TRUE]
       /\ pushToSSEQueue(r, <<Cancelled, End>>, "terminate", FALSE)

\* POST /api/chat/interrupt by an authenticated user: interruptAgent(reply_id),
\* terminateAgent; the user of the request is not passed on
Interrupt(r, user) ==
  /\ IF pendingReplies[r].present
     THEN /\ calls' = Count(r, "interrupts")
          /\ TerminateRun(r, 1, r \in processes, r \in messageCallbacks, handlers)
     ELSE /\ calls' = Count(r, "interrupts")
          /\ UNCHANGED <<handlers, hubLog, frames, messageCallbacks, sendPc, child,
                         processes, pendingReplies>>
  /\ UNCHANGED <<conversationAgents, hiddenToolCallIds, extractedTestcaseReplies,
                 exitListener, agentSession, dbMessages, toolCalled, textsPosted, socket>>
  /\ UNCHANGED <<coordinatorPlan, discarded>>

\* terminateAgent resumes from message.create
TerminateFlushDone(h) ==
  /\ h \in BagToSet(handlers)
  /\ h.kind = "terminate" /\ h.pc = "flush"
  /\ dbMessages' = CreateMessage(dbMessages, h.reply, h.cap)
  /\ TerminateRun(h.reply, h.idx + 1, h.child, h.open, Resume(h))
  /\ UNCHANGED <<conversationAgents, hiddenToolCallIds, extractedTestcaseReplies,
                 exitListener, agentSession, toolCalled, textsPosted, calls, socket>>
  /\ UNCHANGED <<coordinatorPlan, discarded>>

\* terminateAgent resumes from agentSession.update: status CANCELLED, returns
\* true, and interruptAgent broadcasts
TerminateUpdateDone(h) ==
  /\ h \in BagToSet(handlers)
  /\ h.kind = "terminate" /\ h.pc = "update"
  /\ socket' = broadcastCancelled(broadcastReplyingState(socket, ""), h.reply)
  /\ agentSession' = [agentSession EXCEPT ![h.reply] = UpdateSession(@, "CANCELLED")]
  /\ handlers' = Resume(h)
  /\ calls' = [calls EXCEPT ![h.reply].interruptTrue = TRUE,
                            ![h.reply].interruptOpen = @ \/ h.open]
  /\ UNCHANGED <<processes, conversationAgents, pendingReplies, messageCallbacks,
                 hiddenToolCallIds, extractedTestcaseReplies, child, exitListener, sendPc,
                 frames, dbMessages, hubLog, toolCalled, textsPosted>>
  /\ UNCHANGED <<coordinatorPlan, discarded>>

\* ------------------------------------------------------------- shutdown
\* shutdown on SIGTERM or SIGINT up to its first await: cleanup() signals every
\* child of the process map and clears the six maps
cleanup ==
  /\ ~discarded.happened
  /\ discarded' = [happened |-> TRUE, processes |-> processes,
                   messageCallbacks |-> messageCallbacks, pendingReplies |-> pendingReplies]
  /\ child' = [r \in ReplyIds |-> IF r \in processes THEN Kill(child[r]) ELSE child[r]]
  /\ processes' = {}
  /\ conversationAgents' = [c \in {} |-> {}]
  /\ pendingReplies' = [r \in ReplyIds |-> NoReply]
  /\ messageCallbacks' = {}
  /\ extractedTestcaseReplies' = {}
  /\ hiddenToolCallIds' = {}
  /\ UNCHANGED <<exitListener, sendPc, frames, handlers, agentSession, dbMessages, hubLog,
                 socket, toolCalled, textsPosted, calls, coordinatorPlan>>

\* ------------------------------------------------------------- specification
Next ==
  \/ \E r \in Replies, c \in Conversations : Send(r, c)
  \/ \E r \in Replies : SpawnCreate(r)
  \/ \E r \in Replies : SpawnRunning(r)
  \/ \E r \in Replies : ChildExit(r)
  \/ \E r \in Replies : SSETimeout(r)
  \/ \E r \in Replies :
       /\ Budget(r, MaxCalls)
       /\ \E batch \in Batches(Len(textsPosted[r]), toolCalled[r]) : PostEvents(r, batch)
  \/ \E h \in BagToSet(handlers) : ResumeEvents(h)
  \/ \E r \in Replies, m \in LegacyMessages : Budget(r, MaxCalls) /\ PostMessage(r, m)
  \/ \E r \in Replies : Budget(r, MaxCalls) /\ PushFinished(r)
  \/ \E h \in BagToSet(handlers) : FinishedFlushDone(h)
  \/ \E h \in BagToSet(handlers) : FinishedUpdateDone(h)
  \/ \E h \in BagToSet(handlers) : FinishedRedisDone(h)
  \/ \E r \in Replies, user \in Users : Budget(r, MaxCalls) /\ Interrupt(r, user)
  \/ \E h \in BagToSet(handlers) : TerminateFlushDone(h)
  \/ \E h \in BagToSet(handlers) : TerminateUpdateDone(h)

Spec == Init /\ [][Next]_vars

\* the same where the event loop keeps running: a step that can be taken is
\* eventually taken
LiveSpec == Spec /\ WF_vars(Next)

\* The orchestrator with an agent that posts plain text events one at a time
\* and stays alive: the flushes of push_finished and interrupt over a longer
\* run of requests.
TextNext ==
  \/ \E r \in Replies, c \in Conversations : Send(r, c)
  \/ \E r \in Replies : SpawnCreate(r)
  \/ \E r \in Replies : SpawnRunning(r)
  \/ \E r \in Replies :
       /\ Budget(r, MaxTextCalls)
       /\ Len(textsPosted[r]) < Len(Letters)
       /\ PostEvents(r, <<Ev("text", <<Letters[Len(textsPosted[r]) + 1]>>, "", "", "")>>)
  \/ \E r \in Replies : Budget(r, MaxTextCalls) /\ PushFinished(r)
  \/ \E h \in BagToSet(handlers) : FinishedFlushDone(h)
  \/ \E h \in BagToSet(handlers) : FinishedUpdateDone(h)
  \/ \E h \in BagToSet(handlers) : FinishedRedisDone(h)
  \/ \E r \in Replies, user \in Users : Budget(r, MaxTextCalls) /\ Interrupt(r, user)
  \/ \E h \in BagToSet(handlers) : TerminateFlushDone(h)
  \/ \E h \in BagToSet(handlers) : TerminateUpdateDone(h)

TextSpec == Init /\ [][TextNext]_vars

\* The orchestrator with one reply whose agent posts text, and callbacks that
\* name a reply id that is not pending.
StrayNext ==
  \/ \E r \in Replies, c \in Conversations : Send(r, c)
  \/ \E r \in Replies : SpawnCreate(r)
  \/ \E r \in Replies : SpawnRunning(r)
  \/ \E r \in Replies :
       /\ Budget(r, MaxStrayCalls)
       /\ Len(textsPosted[r]) < Len(Letters)
       /\ PostEvents(r, <<Ev("text", <<Letters[Len(textsPosted[r]) + 1]>>, "", "", "")>>)
  \/ \E u \in StrayIds :
       Budget(u, MaxStrayCalls) /\ \E batch \in Batches(0, {}) : StrayEvents(u, batch)
  \/ \E u \in StrayIds, m \in LegacyMessages : Budget(u, MaxStrayCalls) /\ StrayMessage(u, m)
  \/ \E u \in StrayIds : Budget(u, MaxStrayCalls) /\ StrayFinished(u)
  \/ \E h \in BagToSet(handlers) : FinishedUpdateDone(h)
  \/ \E h \in BagToSet(handlers) : FinishedRedisDone(h)

StraySpec == Init /\ [][StrayNext]_vars

\* The orchestrator of TextSpec where the subprocess may fail to be created.
SpawnNext ==
  \/ TextNext
  \/ \E r \in Replies : SpawnFail(r)

SpawnSpec == Init /\ [][SpawnNext]_vars

\* The orchestrator with one reply whose agent posts coordinator events.
PlanNext ==
  \/ \E r \in Replies, c \in Conversations : Send(r, c)
  \/ \E r \in Replies : SpawnCreate(r)
  \/ \E r \in Replies : SpawnRunning(r)
  \/ \E r \in Replies, e \in PlanEvents : Budget(r, MaxPlanCalls) /\ PostCoordinator(r, e)
  \/ \E h \in BagToSet(handlers) : ResumeEvents(h)

PlanSpec == Init /\ [][PlanNext]_vars

\* The orchestrator of TextSpec with the SSE timer and a shutdown signal; what
\* runs after cleanup() is what the event loop still handles before
\* process.exit.
ShutdownNext ==
  \/ TextNext
  \/ \E r \in Replies : SSETimeout(r)
  \/ cleanup

ShutdownSpec == Init /\ [][ShutdownNext]_vars

\* The orchestrator with one reply whose agent posts batches of a text event
\* and a malformed element.
MalformedNext ==
  \/ \E r \in Replies, c \in Conversations : Send(r, c)
  \/ \E r \in Replies : SpawnCreate(r)
  \/ \E r \in Replies : SpawnRunning(r)
  \/ \E r \in Replies :
       /\ Budget(r, MaxMalformedCalls)
       /\ \E batch \in MalformedBatches(Len(textsPosted[r])) : PostMalformed(r, batch)
  \/ \E r \in Replies : Budget(r, MaxMalformedCalls) /\ PushFinished(r)
  \/ \E h \in BagToSet(handlers) : FinishedFlushDone(h)
  \/ \E h \in BagToSet(handlers) : FinishedUpdateDone(h)
  \/ \E h \in BagToSet(handlers) : FinishedRedisDone(h)

MalformedSpec == Init /\ [][MalformedNext]_vars

\* The orchestrator with one reply whose agent posts batches of a coordinator
\* event and a text event, and a plan store whose writes can fail.
ForwardNext ==
  \/ \E r \in Replies, c \in Conversations : Send(r, c)
  \/ \E r \in Replies : SpawnCreate(r)
  \/ \E r \in Replies : SpawnRunning(r)
  \/ \E r \in Replies :
       /\ Budget(r, MaxForwardCalls)
       /\ \E batch \in PlanBatches(Len(textsPosted[r])) : PostPlanBatch(r, batch)
  \/ \E h \in BagToSet(handlers) : ResumeEvents(h)
  \/ \E h \in BagToSet(handlers) : ResumeFailed(h)

ForwardSpec == Init /\ [][ForwardNext]_vars

\* The orchestrator with one reply whose agent posts coordinator events in
\* batches, each batch handled by one push_events handler in order.
ScenarioNext ==
  \/ \E r \in Replies, c \in Conversations : Send(r, c)
  \/ \E r \in Replies : SpawnCreate(r)
  \/ \E r \in Replies : SpawnRunning(r)
  \/ \E r \in Replies, batch \in ScenarioBatches :
       Budget(r, MaxScenarioCalls) /\ PostScenario(r, batch)
  \/ \E h \in BagToSet(handlers) : ResumeEvents(h)

ScenarioSpec == Init /\ [][ScenarioNext]_vars

\* The orchestrator with one reply whose agent posts text events, with the SSE
\* timer and the exit of the subprocess. The event loop resumes every
\* suspended handler and fires the timer of a waiting generator; the agent and
\* the users owe no request and the subprocess need not exit.
StreamNext ==
  \/ \E r \in Replies, c \in Conversations : Send(r, c)
  \/ \E r \in Replies : SpawnCreate(r)
  \/ \E r \in Replies : SpawnRunning(r)
  \/ \E r \in Replies : ChildExit(r)
  \/ \E r \in Replies : SSETimeout(r)
  \/ \E r \in Replies :
       /\ Budget(r, MaxStreamCalls)
       /\ Len(textsPosted[r]) < Len(Letters)
       /\ PostEvents(r, <<Ev("text", <<Letters[Len(textsPosted[r]) + 1]>>, "", "", "")>>)
  \/ \E r \in Replies : Budget(r, MaxStreamCalls) /\ PushFinished(r)
  \/ \E h \in BagToSet(handlers) : FinishedFlushDone(h)
  \/ \E h \in BagToSet(handlers) : FinishedUpdateDone(h)
  \/ \E h \in BagToSet(handlers) : FinishedRedisDone(h)
  \/ \E r \in Replies, user \in Users : Budget(r, MaxStreamCalls) /\ Interrupt(r, user)
  \/ \E h \in BagToSet(handlers) : TerminateFlushDone(h)
  \/ \E h \in BagToSet(handlers) : TerminateUpdateDone(h)

EventLoop ==
  \/ \E r \in Replies : SSETimeout(r)
  \/ \E h \in BagToSet(handlers) :
       \/ FinishedFlushDone(h) \/ FinishedUpdateDone(h) \/ FinishedRedisDone(h)
       \/ TerminateFlushDone(h) \/ TerminateUpdateDone(h)

StreamSpec == Init /\ [][StreamNext]_vars /\ WF_vars(EventLoop)

\* The orchestrator with two replies whose agents post tool_call and
\* tool_result events, each agent numbering its tool calls from the first id.
ToolNext ==
  \/ \E r \in IndexReplies, c \in Conversations : Send(r, c)
  \/ \E r \in IndexReplies : SpawnCreate(r)
  \/ \E r \in IndexReplies : SpawnRunning(r)
  \/ \E r \in IndexReplies :
       /\ Budget(r, MaxToolCalls)
       /\ \E e \in ToolCallEvents(toolCalled[r]) \cup ToolResultEvents(toolCalled[r]) :
            PostEvents(r, <<e>>)

ToolSpec == Init /\ [][ToolNext]_vars

\* The orchestrator with two replies of one conversation whose agents post
\* nothing but push_finished: the in-memory maps over spawn, exit,
\* push_finished, interrupt and shutdown.
IndexBudget == calls["r1"].total + calls["r2"].total < MaxIndexCalls

IndexNext ==
  \/ \E r \in IndexReplies, c \in Conversations : Send(r, c)
  \/ \E r \in IndexReplies : SpawnCreate(r)
  \/ \E r \in IndexReplies : SpawnRunning(r)
  \/ \E r \in IndexReplies : ChildExit(r)
  \/ \E r \in IndexReplies : IndexBudget /\ PushFinished(r)
  \/ \E h \in BagToSet(handlers) : FinishedUpdateDone(h)
  \/ \E h \in BagToSet(handlers) : FinishedRedisDone(h)
  \/ \E r \in IndexReplies : IndexBudget /\ Interrupt(r, Owner)
  \/ \E h \in BagToSet(handlers) : TerminateUpdateDone(h)
  \/ cleanup

IndexSpec == Init /\ [][IndexNext]_vars

\* ------------------------------------------------------------- properties
Terminal == {"COMPLETED", "CANCELLED", "FAILED"}

StatusPaths ==
  {<<>>, <<"STARTING">>, <<"STARTING", "RUNNING">>}
    \cup {<<"STARTING", t>> : t \in Terminal}
    \cup {<<"STARTING", "RUNNING", t>> : t \in Terminal}

TerminalStatus(r) == agentSession[r] # <<>> /\ Last(agentSession[r]) \in Terminal

\* the accumulated text of every message of the reply
AccumulatedText(r) ==
  [i \in DOMAIN pendingReplies[r].messages |-> pendingReplies[r].messages[i].acc]

RECURSIVE Contents(_)
Contents(evs) == IF evs = <<>> THEN <<>> ELSE <<Head(evs).content>> \o Contents(Tail(evs))

IsChunk(e) == e.type = "chunk"

\* the events pushed for r, in the order of the pushToSSEQueue calls
Published(r) == [i \in DOMAIN hubLog[r] |-> hubLog[r][i].ev]

\* index of the first occurrence of e in seq, Len(seq) + 1 when there is none
FirstIndex(seq, e) ==
  IF \E i \in DOMAIN seq : seq[i] = e
  THEN CHOOSE i \in DOMAIN seq : seq[i] = e /\ \A j \in 1..(i - 1) : seq[j] # e
  ELSE Len(seq) + 1

Before(seq, e) == SubSeq(seq, 1, FirstIndex(seq, e) - 1)

Occurrences(seq, e) == Cardinality({i \in DOMAIN seq : seq[i] = e})

\* the frames of the stream of r that carry agent or orchestrator events
FramesBody(r) == SelectSeq(frames[r], LAMBDA f : f \notin {Start, Heartbeat, Done})

NotHeartbeat(f) == f # Heartbeat

\* what was pushed while the SSE callback of r was registered, up to the end signal
IsDelivered(entry) == entry.sub = "open"
Delivered(r) ==
  LET d == SelectSeq(hubLog[r], IsDelivered) IN
  Before([i \in DOMAIN d |-> d[i].ev], End)

EventsInFlight(r) == \E h \in BagToSet(handlers) : h.kind = "events" /\ h.reply = r
FinishedInFlight(r) == \E h \in BagToSet(handlers) : h.kind = "finished" /\ h.reply = r

\* C1: the statuses written to the AgentSession row of a reply form a prefix of
\* STARTING, RUNNING, terminal (or STARTING, terminal), so that a terminal
\* status is written at most once and nothing is written after it.
C1_StatusMonotone == \A r \in Replies : agentSession[r] \in StatusPaths

\* C2: once interrupt(r) has returned true and the subprocess of r is not
\* running, it is never running again, and no SSE subscription of r is opened
\* afterwards that would miss the terminal signal.
C2_InterruptStopsAgent ==
  [][\A r \in Replies :
       (calls[r].interruptTrue /\ ~isRunning(r))
         => (~isRunning(r)' /\ (r \notin messageCallbacks => r \notin messageCallbacks'))]_vars

\* C3: the end signal of a reply is pushed at most once, and exactly once when
\* the reply has a terminal status.
C3_EndPublishedOnce ==
  \A r \in Replies :
    /\ Occurrences(Published(r), End) <= 1
    /\ TerminalStatus(r) => Occurrences(Published(r), End) = 1

\* C4: no tool_call or tool_result is pushed downstream under the id of a
\* tool_call with a hidden name that the agent posted for the reply.
C4_HiddenToolNeverEmitted ==
  \A r \in Replies : \A i \in DOMAIN hubLog[r] :
    hubLog[r][i].ev.type \in {"tool_call", "tool_result"}
      => ~\E c \in toolCalled[r] : isToolHidden(c.name) /\ c.id = hubLog[r][i].ev.id

\* C5: when the reply has a terminal status, no step changes its accumulated text.
C5_NoTextAfterTerminal ==
  [][\A r \in Replies : TerminalStatus(r) => AccumulatedText(r)' = AccumulatedText(r)]_vars

\* C6: no event of a push_events callback is pushed before the SSE callback of
\* the reply is registered.
C6_SubscribedBeforeCallbacks ==
  \A r \in Replies : \A i \in DOMAIN hubLog[r] :
    hubLog[r][i].src = "events" => hubLog[r][i].sub # "none"

\* C7: when the subprocess has exited without push_finished and without an
\* interrupt and the SSE stream has ended, the stream carries an error frame
\* before its done frame, the AgentSession row is FAILED and the accumulated
\* text is stored as an assistant message.
C7_CrashSynthesizesFailed ==
  \A r \in Replies :
    (child[r] = "exited" /\ calls[r].finished = 0 /\ calls[r].interrupts = 0
       /\ sendPc[r] = "closed")
      => /\ \E i, j \in DOMAIN frames[r] :
              i < j /\ frames[r][i].type = "error" /\ frames[r][j] = Done
         /\ agentSession[r] # <<>> /\ Last(agentSession[r]) = "FAILED"
         /\ \A k \in DOMAIN pendingReplies[r].messages :
              pendingReplies[r].messages[k].acc # <<>>
                => \E n \in DOMAIN dbMessages :
                     /\ dbMessages[n].reply = r
                     /\ dbMessages[n].content = pendingReplies[r].messages[k].acc

\* C8: when an interrupt that arrived while the SSE callback was registered has
\* returned true, the stream shows every chunk pushed before the cancelled
\* event, then one cancelled frame, then one done frame and nothing after it
\* (heartbeats aside).
C8_InterruptFrames ==
  \A r \in Replies :
    calls[r].interruptOpen
      => LET f == SelectSeq(frames[r], NotHeartbeat) IN
         /\ Len(f) >= 2
         /\ f[Len(f)] = Done /\ f[Len(f) - 1] = Cancelled
         /\ Occurrences(f, Done) = 1 /\ Occurrences(f, Cancelled) = 1
         /\ SelectSeq(f, IsChunk) = SelectSeq(Before(Published(r), Cancelled), IsChunk)

\* C9: with only push_events callbacks posted and none of them in progress, the
\* chunks pushed are the text events posted, one each, in the order posted, each
\* with the content of its event; and once push_finished has flushed, an
\* assistant message holds the concatenation of the text events posted before it.
C9_ChunksAndFlush ==
  \A r \in Replies :
    (calls[r].legacy = 0 /\ ~EventsInFlight(r))
      => /\ Contents(SelectSeq(Published(r), IsChunk)) = textsPosted[r]
         /\ (calls[r].finished > 0 /\ ~FinishedInFlight(r) /\ calls[r].textsAtFinished > 0)
              => \E n \in DOMAIN dbMessages :
                   /\ dbMessages[n].reply = r
                   /\ dbMessages[n].content =
                        Concat(SubSeq(textsPosted[r], 1, calls[r].textsAtFinished))

\* C10: the event frames of the SSE stream of a reply are the events pushed
\* while its callback was registered, in the order they were pushed.
C10_SubscriberOrder == \A r \in Replies : FramesBody(r) = Delivered(r)

\* C10 witness: two push_events handlers overlapped (the second text event
\* posted was pushed before the first) and the stream shows both chunks.
C10_Witness ==
  \E r \in Replies : \E i, j \in DOMAIN frames[r] :
    /\ i < j
    /\ frames[r][i] = Ev("chunk", <<"b">>, "", "", "")
    /\ frames[r][j] = Ev("chunk", <<"a">>, "", "", "")

C12_TerminateIdempotent ==
  [][\A r \in Replies :
       (calls[r].interruptTrue /\ calls[r].interrupts' > calls[r].interrupts)
         => /\ hubLog'[r] = hubLog[r]
            /\ pendingReplies'[r] = pendingReplies[r]
            /\ dbMessages' = dbMessages
            /\ agentSession'[r] = agentSession[r]]_vars

\* C13: a terminate call returns true only when it found a subprocess of the
\* reply in the process map on entry (and false only when it found none).
C13_TrueIffAgentFound ==
  [][\A h \in BagToSet(handlers) : TerminateUpdateDone(h) => h.child]_vars

\* C14: an interrupt request of a user who does not own the reply leaves the
\* reply as it is: nothing is pushed, the subprocess is not signalled, no
\* terminate handler is started.
C14_ForeignInterruptRejected ==
  [][\A r \in Replies, user \in Users \ {Owner} :
       Interrupt(r, user)
         => /\ hubLog'[r] = hubLog[r]
            /\ child'[r] = child[r]
            /\ pendingReplies'[r] = pendingReplies[r]
            /\ handlers' = handlers]_vars

\* C15: no message of a reply is stored twice as an assistant message row,
\* whatever push_finished and interrupt calls flushed it.
C15_FlushedAtMostOnce ==
  \A n, k \in DOMAIN dbMessages :
    (n # k /\ dbMessages[n].reply = dbMessages[k].reply)
      => dbMessages[n].id # dbMessages[k].id

\* a step of a callback that names the stray reply id u: the request is
\* received, or its push_finished handler resumes
StrayStep(u) ==
  \/ calls[u]' # calls[u]
  \/ \E h \in BagToSet(handlers) :
       h.reply = u /\ (FinishedUpdateDone(h) \/ FinishedRedisDone(h))

C17_SpawnFailureCleansUp ==
  \A r \in Replies :
    sendPc[r] = "thrown"
      => /\ ~pendingReplies[r].present
         /\ \A c \in DOMAIN conversationAgents : r \notin conversationAgents[c]
         /\ agentSession[r] # <<>> /\ Last(agentSession[r]) = "FAILED"
         /\ frames[r] = <<>>

\* C18: completed_phases of the plan of a conversation only grows: a phase that
\* is in it before a step of the projector is in it after the step.
C18_CompletedPhasesGrow ==
  [][\A c \in Conversations, i \in DOMAIN Phases :
       Includes(coordinatorPlan[c].completedPhases, Phases[i])
         => Includes(coordinatorPlan'[c].completedPhases, Phases[i])]_vars

\* C19: active_phase of a plan is null or a phase that is not in
\* completed_phases.
C19_ActiveNotCompleted ==
  \A c \in Conversations :
    coordinatorPlan[c].exists
      => \/ coordinatorPlan[c].activePhase = Null
         \/ ~Includes(coordinatorPlan[c].completedPhases, coordinatorPlan[c].activePhase)

\* C20: a plan whose status is completed has every phase it declares in
\* completed_phases.
C20_CompletedHasAllPhases ==
  \A c \in Conversations :
    coordinatorPlan[c].status = "completed"
      => \A i \in DOMAIN coordinatorPlan[c].phases :
           Includes(coordinatorPlan[c].completedPhases, coordinatorPlan[c].phases[i])

\* C21: a heartbeat frame is written only when the timeout window passed
\* without an event: a step that adds a heartbeat to the stream of a reply
\* publishes nothing for that reply.
C21_HeartbeatOnlyOnTimeout ==
  [][\A r \in Replies :
       Occurrences(frames'[r], Heartbeat) > Occurrences(frames[r], Heartbeat)
         => hubLog'[r] = hubLog[r]]_vars

\* the raw message raw of a pushReplies emit carries the downstream event ev
Carries(raw, ev) ==
  \/ raw.type = "text" /\ ev = Ev("chunk", raw.content, "", "", "")
  \/ raw.type = "msg" /\ ev = Ev("chunk", raw.content, "", "", "")
  \/ raw.type = "thinking" /\ ev = Ev("thinking", raw.content, "", "", "")
  \/ raw.type \in {"tool_call", "tool_result"} /\ ev.type = raw.type /\ ev.id = raw.id
  \/ raw.type = "coordinator_event" /\ ev = raw

\* some emit on the socket bus for reply r carries the downstream event ev
OnBus(r, ev) ==
  \E k \in DOMAIN socket :
    /\ socket[k].reply = r
    /\ \/ socket[k].event = "pushCancelled" /\ ev = Cancelled
       \/ /\ socket[k].event = "pushReplies"
          /\ socket[k].room = pendingReplies[r].conversationId
          /\ \E j \in DOMAIN socket[k].message :
               socket[k].message[j] = ev \/ Carries(socket[k].message[j], ev)

\* C22: when no handler of a reply is suspended, every downstream event that
\* was published to the hub of the reply has also been emitted on the socket
\* bus for the reply.
C22_PublishedAlsoBroadcast ==
  \A r \in Replies :
    (~\E h \in BagToSet(handlers) : h.reply = r)
      => \A i \in DOMAIN hubLog[r] : hubLog[r][i].ev # End => OnBus(r, hubLog[r][i].ev)

\* C23: every message of a pushReplies emit passed the hidden-tool filter and
\* the display-name mapping: it is no tool_call or tool_result of a hidden tool
\* and carries no tool name that has a display name.
C23_BroadcastIsDownstream ==
  \A k \in DOMAIN socket :
    socket[k].event = "pushReplies"
      => \A j \in DOMAIN socket[k].message :
           socket[k].message[j].type \in {"tool_call", "tool_result"}
             => /\ ~isToolHidden(socket[k].message[j].name)
                /\ socket[k].message[j].name \notin DOMAIN Rename

\* r is in no set of the conversation index
NotIndexed(r) == \A c \in DOMAIN conversationAgents : r \notin conversationAgents[c]

\* C24: on the SSE stream of a reply the start frame is the first frame: every
\* other frame, and so every frame derived from an event of the agent, comes
\* after it.
C24_StartFirst ==
  \A r \in Replies :
    \A i \in DOMAIN frames[r] :
      frames[r][i] # Start => i > 1 /\ frames[r][1] = Start

\* C24 witness: an event of the agent was published before the SSE callback
\* was registered and a later one was written to the stream after start.
C24_Witness ==
  \E r \in Replies :
    /\ Len(frames[r]) >= 2 /\ frames[r][1] = Start /\ IsChunk(frames[r][2])
    /\ hubLog[r] # <<>> /\ hubLog[r][1].sub = "none"

\* C25: once the subprocess of a reply has exited, the reply is eventually in
\* neither the process map nor the conversation index.
C25_ExitRemovesReply ==
  \A r \in Replies :
    (child[r] = "exited") ~> (r \notin processes /\ NotIndexed(r))

\* the handlers of r that are suspended at an await
InProgress(r) == {h \in BagToSet(handlers) : h.reply = r}

\* C26: the handlers of one reply are mutually exclusive: at most one
\* push_events, push_finished or interrupt handler of a reply is in progress,
\* suspended at an await of the durable store or the cache.
C26_HandlersExclusive ==
  \A r \in Replies :
    /\ Cardinality(InProgress(r)) <= 1
    /\ \A h \in InProgress(r) : CopiesIn(h, handlers) = 1

\* the accumulated text of reply r that cleanup() discarded is a message row
FlushedAtShutdown(r) ==
  \A i \in DOMAIN discarded.pendingReplies[r].messages :
    discarded.pendingReplies[r].messages[i].acc # <<>>
      => \E n \in DOMAIN dbMessages :
           /\ dbMessages[n].reply = r
           /\ dbMessages[n].content = discarded.pendingReplies[r].messages[i].acc

\* C27: after cleanup(), for every reply that had a live subprocess the child
\* was signalled, cancelled was published to the reply's SSE queue (and written
\* to the stream when the SSE callback was registered) and the accumulated text
\* is in the durable store.
C27_ShutdownClosesAndFlushes ==
  discarded.happened
    => \A r \in discarded.processes :
         /\ child[r] # "alive"
         /\ Occurrences(Published(r), Cancelled) >= 1
         /\ r \in discarded.messageCallbacks => Occurrences(frames[r], Cancelled) >= 1
         /\ FlushedAtShutdown(r)

\* the end signal of reply r was pushed: handleAgentFinished or terminateAgent
\* published the terminal event
TerminalPublished(r) == Occurrences(Published(r), End) >= 1

\* C28: once the terminal event of a reply was published, a step of a
\* push_events handler of that reply (the request or a resume) writes no SSE
\* frame and emits nothing on the socket bus.
C28_NoPublishAfterTerminal ==
  [][\A r \in Replies :
       (/\ TerminalPublished(r)
        /\ \/ calls'[r].events > calls[r].events
           \/ \E h \in BagToSet(handlers) : h.reply = r /\ ResumeEvents(h))
         => frames'[r] = frames[r] /\ socket' = socket]_vars

\* the events held for the SSE subscriber of r when the client reads nothing:
\* every event frame written to the response since start
Backlog(r) == Len(FramesBody(r))

\* C29: the buffer of a subscription is bounded: while the subscription of a
\* reply is attached, the events queued for a client that does not read never
\* exceed the capacity (on overflow the subscription is detached).
C29_BufferBounded ==
  \A r \in Replies : r \in messageCallbacks => Backlog(r) <= Capacity

\* C30: a malformed element of a push_events batch is skipped and the batch
\* goes on: every well-formed text event the agent posted is published as a
\* chunk, in order.
C30_MalformedSkipped ==
  \A r \in Replies :
    Contents(SelectSeq(Published(r), IsChunk)) = textsPosted[r]

\* C31: the conversation index has an entry for a conversation exactly when
\* the set of reply ids stored for it is not empty: no conversation is mapped
\* to an empty set.
C31_NoEmptyIndexEntry ==
  \A c \in DOMAIN conversationAgents : conversationAgents[c] # {}

\* C31 witness: of two replies of one conversation the subprocess of one has
\* exited and its exit listener left the other in the index.
C31_Witness ==
  /\ child["r1"] = "exited"
  /\ "c1" \in DOMAIN conversationAgents
  /\ conversationAgents["c1"] = {"r2"}

\* the first of the two awaits of a phase_completed: findUnique found the row
ReadsPlan(h) ==
  /\ Head(h.rest).event_type = "phase_completed"
  /\ h.pc = "coord"
  /\ coordinatorPlan[pendingReplies[h.reply].conversationId].exists

\* what the step pushed for reply r
Pushed(r) ==
  [i \in 1..(Len(hubLog'[r]) - Len(hubLog[r])) |-> hubLog'[r][Len(hubLog[r]) + i].ev]

\* C32: a failure to persist a coordinator event does not block the event
\* stream: when handleCoordinatorEvent has returned, whether the write went
\* through, was dropped or failed, the coordinator_event is pushed to the SSE
\* queue and the rest of the batch is processed (its text events are pushed as
\* chunks and accumulated).
C32_PersistFailureForwards ==
  [][\A h \in BagToSet(handlers) :
       (ResumeFailed(h) \/ (ResumeEvents(h) /\ ~ReadsPlan(h)))
         => /\ Len(Pushed(h.reply)) >= 1
            /\ Pushed(h.reply)[1] = Head(h.rest)
            /\ Contents(SelectSeq(Pushed(h.reply), IsChunk)) = TextsIn(Tail(h.rest))
            /\ Concat(AccumulatedText(h.reply)') =
                 Concat(AccumulatedText(h.reply)) \o Concat(TextsIn(Tail(h.rest)))]_vars

\* C32 witness: the write of a plan_created failed (its event was forwarded
\* and there is no plan row) and the text event after it was pushed as a chunk.
C32_Witness ==
  \E r \in Replies, c \in Conversations :
    /\ pendingReplies[r].conversationId = c
    /\ ~coordinatorPlan[c].exists
    /\ \E i \in DOMAIN hubLog[r] :
         /\ hubLog[r][i].ev.event_type = "plan_created"
         /\ i < Len(hubLog[r]) /\ IsChunk(hubLog[r][i + 1].ev)

\* C33: only plan_created creates a plan row: while the conversation has no
\* row, the handling of a phase_started, phase_completed, task_completed,
\* task_failed or execution_failed leaves the plan store as it is.
C33_OnlyPlanCreatedCreates ==
  [][\A h \in BagToSet(handlers), c \in Conversations :
       (/\ ResumeEvents(h)
        /\ pendingReplies[h.reply].conversationId = c
        /\ Head(h.rest).event_type # "plan_created"
        /\ ~coordinatorPlan[c].exists)
         => coordinatorPlan' = coordinatorPlan]_vars

\* C33 witness: a task_completed and a phase_completed were handled and
\* forwarded and the conversation has no plan row.
C33_Witness ==
  \E r \in Replies, c \in Conversations :
    /\ pendingReplies[r].conversationId = c
    /\ ~coordinatorPlan[c].exists
    /\ \E i, j \in DOMAIN hubLog[r] :
         /\ hubLog[r][i].ev.event_type = "task_completed"
         /\ hubLog[r][j].ev.event_type = "phase_completed"

\* the plan row at the end of the plan run
PlanRunRow ==
  [exists |-> TRUE, objective |-> "O", phases |-> Phases, activePhase |-> Null,
   completedPhases |-> <<1, 2>>, phaseOutputs |-> [k \in {"phase_1"} |-> "ok"],
   status |-> "completed"]

\* C34: a phase_completed {phase, evaluation?} applied to the plan row that
\* its handler read appends phase to completed_phases unless it is there,
\* stores evaluation under phase_{phase} when there is one, clears
\* active_phase when it equals phase and leaves objective, plan and status;
\* and the handler of the plan run, run alone, leaves active_phase null,
\* completed_phases [1, 2], phase_outputs {phase_1: ok} and status completed.
C34_PhaseCompletedRow ==
  [][\A h \in BagToSet(handlers), c \in Conversations :
       (ResumeEvents(h) /\ pendingReplies[h.reply].conversationId = c)
         => LET e == Head(h.rest)
                p == PhaseOf(e)
                old == coordinatorPlan[c]
                new == coordinatorPlan'[c]
            IN /\ (e.event_type = "phase_completed" /\ h.pc = "planUpdate" /\ h.read = old)
                    => /\ new.completedPhases =
                            IF Includes(old.completedPhases, p) THEN old.completedPhases
                            ELSE old.completedPhases \o <<p>>
                       /\ DOMAIN new.phaseOutputs =
                            DOMAIN old.phaseOutputs
                              \cup (IF e.name \in Evaluations THEN {OutputKey[p]} ELSE {})
                       /\ \A k \in DOMAIN new.phaseOutputs :
                            new.phaseOutputs[k] =
                              IF k = OutputKey[p] /\ e.name \in Evaluations THEN e.name
                              ELSE old.phaseOutputs[k]
                       /\ new.activePhase = IF old.activePhase = p THEN Null ELSE old.activePhase
                       /\ new.objective = old.objective
                       /\ new.phases = old.phases
                       /\ new.status = old.status
               /\ (h.batch = PlanRun /\ Len(h.rest) = 1 /\ calls[h.reply].events = 1)
                    => new = PlanRunRow]_vars

\* C34 witness: the plan run was posted alone, its handler has finished and the
\* row holds the evaluation of phase 1.
C34_Witness ==
  \E r \in Replies, c \in Conversations :
    /\ pendingReplies[r].conversationId = c
    /\ calls[r].events = 1
    /\ ~EventsInFlight(r)
    /\ Len(hubLog[r]) = Len(PlanRun)
    /\ coordinatorPlan[c].phaseOutputs = [k \in {"phase_1"} |-> "ok"]
    /\ coordinatorPlan[c].completedPhases = <<1, 2>>

\* handleCoordinatorEvent for event e with no other handler between its awaits:
\* the table after e
Projected(table, c, e) ==
  IF e.event_type = "phase_completed"
  THEN updatePhaseCompleted(table, c, PhaseOf(e), EvaluationOf(e), table[c])
  ELSE handleCoordinatorEvent(table, c, e)

\* C35: every update of the projector is idempotent: for every plan state
\* reached and every projector event, handling the event twice in a row leaves
\* the plan state that handling it once leaves.
C35_ProjectorIdempotent ==
  \A c \in Conversations, e \in PlanEvents :
    Projected(Projected(coordinatorPlan, c, e), c, e) = Projected(coordinatorPlan, c, e)

\* C35 witness: a batch of a plan_created and the same phase_completed twice
\* was handled to the end, which left the phase once in completed_phases.
C35_Witness ==
  \E r \in Replies, c \in Conversations :
    /\ pendingReplies[r].conversationId = c
    /\ ~EventsInFlight(r)
    /\ Len(hubLog[r]) = 3
    /\ hubLog[r][2].ev.event_type = "phase_completed"
    /\ hubLog[r][3].ev = hubLog[r][2].ev
    /\ coordinatorPlan[c].completedPhases = <<PhaseOf(hubLog[r][2].ev)>>

\* index of the coordinator event of the given type and phase in what was
\* pushed for r, 0 when there is none
ForwardedAt(r, etype, phase) ==
  LET S == {i \in DOMAIN hubLog[r] :
              /\ hubLog[r][i].ev.event_type = etype
              /\ hubLog[r][i].ev.content = phase}
  IN IF S = {} THEN 0 ELSE CHOOSE i \in S : \A j \in S : i <= j

\* C39: when the plan was created once and, after that, a phase_completed for
\* phase 1 and one for phase 2 were handled by push_events handlers of the
\* conversation, overlapping or not, both phases are in completed_phases once
\* no handler is in progress.
C39_NoLostPhase ==
  \A r \in Replies, c \in Conversations :
    (/\ pendingReplies[r].conversationId = c
     /\ ~EventsInFlight(r)
     /\ Len(hubLog[r]) = 3
     /\ hubLog[r][1].ev.event_type = "plan_created"
     /\ ForwardedAt(r, "phase_completed", <<1>>) > 1
     /\ ForwardedAt(r, "phase_completed", <<2>>) > 1)
      => /\ Includes(coordinatorPlan[c].completedPhases, 1)
         /\ Includes(coordinatorPlan[c].completedPhases, 2)

\* the positions of the pushFinished and pushCancelled emits for reply r
TerminalEmits(r) ==
  {k \in DOMAIN socket :
     socket[k].reply = r /\ socket[k].event \in {"pushFinished", "pushCancelled"}}

\* C36: the socket bus carries at most one terminal notification of a reply:
\* one pushFinished or one pushCancelled, never both and never one twice.
C36_OneTerminalNotification ==
  \A r \in Replies : Cardinality(TerminalEmits(r)) <= 1

\* the reply has ended while its SSE generator waits: push_finished was
\* received, an interrupt that arrived while the SSE callback was registered
\* is in progress, or the subprocess is not running
Ended(r) ==
  \/ calls[r].finished > 0
  \/ \E h \in BagToSet(handlers) : h.kind = "terminate" /\ h.reply = r /\ h.open
  \/ ~isRunning(r)

HiddenFor(r, id) == \E c \in toolCalled[r] : c.id = id /\ isToolHidden(c.name)

\* C38: the hidden tool ids are per reply: a tool_result with a name that is
\* not hidden is pushed for its reply unless the agent of that reply posted a
\* hidden tool_call with the same id, whatever was posted for other replies.
C38_HiddenIdsPerReply ==
  [][\A r \in IndexReplies : \A e \in ToolResultEvents(toolCalled[r]) :
       (PostEvents(r, <<e>>) /\ ~isToolHidden(e.name) /\ ~HiddenFor(r, e.id))
         => /\ Len(hubLog'[r]) = Len(hubLog[r]) + 1
            /\ Last(hubLog'[r]).ev.type = "tool_result"
            /\ Last(hubLog'[r]).ev.id = e.id]_vars

\* r is in the index set of conversation c
Indexed(r, c) == c \in DOMAIN conversationAgents /\ r \in conversationAgents[c]

\* C40: every reply id of the process map has a pending reply and is in the
\* index set of its conversation, and every reply id of the index has a
\* pending reply.
C40_MapsNested ==
  \A r \in IndexReplies :
    /\ r \in processes
         => pendingReplies[r].present /\ Indexed(r, pendingReplies[r].conversationId)
    /\ (\E c \in Conversations : Indexed(r, c)) => pendingReplies[r].present

====
